---- MODULE Spec2Model ----
(***************************************************************************)
(* Model of tools/hotkey-ws/hotkey_ws_server.py: the Hub (sink registry    *)
(* and broadcast fan-out), ws_handler (per-connection protocol), and       *)
(* WsServerController (start / stop / broadcast) across three kinds of     *)
(* thread: the GUI thread, the input-hook thread and the server threads,   *)
(* each server thread owning one asyncio event loop.                       *)
(*                                                                         *)
(* An event loop is modelled as asyncio runs it: ready[g] is the FIFO of   *)
(* ready tasks and callbacks, cur[g] the task that is executing, batch[g]  *)
(* the number of ready entries the current loop iteration still has to     *)
(* run, and stopping[g] the flag loop.stop() sets: the loop leaves         *)
(* run_forever / run_until_complete at the end of the iteration in which   *)
(* the flag was set.  A task runs from one suspending await to the next;   *)
(* the threads interleave between any two steps.                           *)
(***************************************************************************)
EXTENDS Integers, Sequences, FiniteSets, TLC

\* ------------------------------------------------------------ bounds
MaxGen == 2        \* server threads ever started by start()
MaxSinks == 2      \* connections ever accepted
MaxBcast == 1      \* broadcasts ever scheduled by WsServerController.broadcast
MaxStops == 1      \* calls of stop() that find the running flag set
MaxStopsAgain == 2 \* the same, in the runs in which stop() is called again
MaxBcastMore == 2  \* broadcasts ever scheduled, in the runs with a later broadcast

Gens == 1..MaxGen
Sinks == 1..MaxSinks
Bcasts == 1..MaxBcastMore
Stops == 1..MaxStopsAgain

\* An entry of a ready queue: <<kind, a, b>>.
NoTask == <<"none", 0, 0>>
\* the connection handler of sink s
HTask(s) == <<"h", s, 0>>
\* Hub.broadcast number i
BTask(i) == <<"b", i, 0>>
\* Hub._safe_send of broadcast i to sink s
STask(i, s) == <<"s", i, s>>
\* shutdown() number k
DTask(k) == <<"d", k, 0>>
\* start_server() of thread g
XTask(g) == <<"x", g, 0>>
\* self._server.wait_closed() in the finally block of thread g
WTask(g) == <<"w", g, 0>>
\* the done callback of run_until_complete on loop g (it calls loop.stop())
CTask(g) == <<"c", g, 0>>
\* the callback run_coroutine_threadsafe leaves on the loop: it wraps the
\* coroutine (broadcast i, shutdown k) in a task, whose first step is a ready
\* entry of its own
SubmitB(i) == <<"pb", i, 0>>
SubmitD(k) == <<"pd", k, 0>>

VARIABLES
  \* WsServerController fields
  running, loopRef, hubRef, serverRef, clientCount,
  errLog,      \* server threads whose "[서버] 오류" line reached the log callback
  \* one server thread / loop / Hub / listening server per generation
  tpc, xpc, wsrv, listener, clients, lock, ready, cur, batch, stopping,
  \* connections
  hpc, hgen, hhub, sock, nrem,
  \* broadcasts
  bpc, bhub, bloop, bsnap, spc, bphase, bdown,
  \* the input thread inside WsServerController.broadcast
  ipc, iloop, ihub, iphase, iraised,
  \* shutdown() coroutines
  dpc, dloop, dhub, dsnap, dclosed, dcur, dsrv,
  \* history of the GUI thread's calls
  stopSeq, preStop,
  \* HotkeyManager and the keyboard library
  handles,     \* HotkeyManager._handles: <<kind, key, callback>> in order
  kbHooks,     \* the registrations the keyboard library holds
  debugHook,   \* HotkeyManager._debug_hook_handle is not None
  hkLog,       \* the callbacks whose registration failure reached the log
  lastApply,   \* the last apply(): what was registered before, what was asked
  \* ws_handler with the frames of one connection
  wpc,         \* where the handler is
  wsent,       \* the frames the server has sent to the sink, in order
  wrecv,       \* the frames the handler has received from the sink, in order
  \* Hub.remove called on its own
  rcall,       \* <<hub, sink, number of calls made>>
  rraised      \* a call has raised

ctrl == <<running, loopRef, hubRef, serverRef, clientCount, errLog>>
loops == <<tpc, xpc, wsrv, listener, clients, lock, ready, cur, batch, stopping>>
conns == <<hpc, hgen, hhub, sock, nrem>>
bcasts == <<bpc, bhub, bloop, bsnap, spc, bphase, bdown>>
input == <<ipc, iloop, ihub, iphase, iraised>>
downs == <<dpc, dloop, dhub, dsnap, dclosed, dcur, dsrv>>
hist == <<stopSeq, preStop>>
server == <<ctrl, loops, conns, bcasts, input, downs, hist>>
hotkeys == <<handles, kbHooks, debugHook, hkLog, lastApply>>
proto == <<wpc, wsent, wrecv>>
calls == <<rcall, rraised>>
aux == <<hotkeys, proto, calls>>
vars == <<server, aux>>

\* ------------------------------------------------------------ helpers

\* The elements of a finite set of integers in ascending order.
RECURSIVE SetToSeq(_)
SetToSeq(S) ==
  IF S = {} THEN <<>>
  ELSE LET m == CHOOSE x \in S : \A y \in S : x <= y
       IN <<m>> \o SetToSeq(S \ {m})

Max(a, b) == IF a >= b THEN a ELSE b

\* The event loop of thread g is executing callbacks: inside
\* run_until_complete(start_server()), run_forever(), or the finally block's
\* run_until_complete(self._server.wait_closed()).
LoopRuns(g) == tpc[g] \in {"binding", "serving", "waiting", "blocked"}

\* loop.close() has been executed on the loop of thread g.
LoopClosed(g) == tpc[g] \in {"closed", "done"}

\* No event loop of the controller is executing callbacks and none is about to.
RuntimeDown == \A g \in Gens : tpc[g] \in {"idle", "stopped", "closed", "done"}

\* Entry t is the next one loop g runs: it heads the ready queue, no task is in
\* the middle of a step, and the loop has not been told to stop at the end of
\* an iteration that is over.
IsNext(g, t) ==
  /\ LoopRuns(g)
  /\ cur[g] = NoTask
  /\ ready[g] # <<>>
  /\ Head(ready[g]) = t
  /\ batch[g] > 0 \/ ~stopping[g]

\* Task t either continues its step on loop g or is taken from the ready queue.
Runs(g, t) == cur[g] = t \/ IsNext(g, t)

\* The ready queue of loop g, and what is left of its iteration, once t has
\* taken its turn (a new iteration runs everything that is ready when it starts).
Taken(g, t) == IF cur[g] = t THEN ready[g] ELSE Tail(ready[g])
BatchTaken(g, t) ==
  IF cur[g] = t THEN batch[g]
  ELSE IF batch[g] > 0 THEN batch[g] - 1
  ELSE Len(ready[g]) - 1

\* The sinks whose connection was accepted by the server of generation h.
SinksOf(h) == {s \in Sinks : hpc[s] # "none" /\ hgen[s] = h}

\* websockets' server h is closed and all its connection handlers have returned
\* (what wait_closed() waits for).
ClosedFully(h) ==
  /\ listener[h] # "open"
  /\ \A s \in SinksOf(h) : hpc[s] = "done"

\* Handlers suspended on the network (sending hello, or in "async for msg in ws").
Blocked(s) == hpc[s] \in {"hello", "open"}

\* The transports of the sinks S are closed: sends to them fail from now on and
\* every handler suspended on one of them resumes in its finally block.
SockAfterClose(S) == [s \in Sinks |-> IF s \in S /\ sock[s] = "open" THEN "closed" ELSE sock[s]]
Woken(S) == {s \in S : sock[s] = "open" /\ Blocked(s)}
\* Variant of HpcAfterClose for sensitivity: a close that reaches only the
\* handlers waiting in "async for", as if the hello send were outside the try.
HpcAfterCloseRecvOnly(S) ==
  [s \in Sinks |-> IF s \in Woken(S) /\ hpc[s] = "open" THEN "cleanup" ELSE hpc[s]]
HpcAfterClose(S) == [s \in Sinks |-> IF s \in Woken(S) THEN "cleanup" ELSE hpc[s]]
ReadyAfterClose(q, S) ==
  [g \in Gens |->
     q[g] \o [n \in 1..Cardinality({s \in Woken(S) : hgen[s] = g}) |->
                HTask(SetToSeq({s \in Woken(S) : hgen[s] = g})[n])]]

\* websockets' Server.close() on server h: the listening socket stops accepting
\* (and every connection of the server is closed, see SockAfterClose).
ListenerAfterClose(h) == [listener EXCEPT ![h] = IF @ = "open" THEN "closed" ELSE @]

\* Hub.__init__: "self.clients = set()".
NoClients == [g \in Gens |-> {}]

\* Hub.remove has not been called.
NoCall == [n |-> 0, hub |-> 1, sink |-> 1, before |-> {}]

\* No apply() has been called yet.
NoApply == [called |-> FALSE, prior |-> {}, want |-> {}]

\* WsServerController.__init__ and HotkeyManager.__init__, nothing started yet.
\* The run is one in which at most nb broadcasts are scheduled and at most ns
\* calls of stop() find the running flag set: the other numbers are not used.
\* The hubs hold the registries reg.
InitWith(nb, ns, reg) ==
  /\ running = FALSE /\ loopRef = 0 /\ hubRef = 0 /\ serverRef = 0
  /\ clientCount = 0 /\ errLog = {}
  /\ tpc = [g \in Gens |-> "idle"]
  /\ xpc = [g \in Gens |-> "none"]
  /\ wsrv = [g \in Gens |-> 0]
  /\ listener = [g \in Gens |-> "none"]
  /\ clients = reg
  /\ lock = [g \in Gens |-> NoTask]
  /\ ready = [g \in Gens |-> <<>>]
  /\ cur = [g \in Gens |-> NoTask]
  /\ batch = [g \in Gens |-> 0]
  /\ stopping = [g \in Gens |-> FALSE]
  /\ hpc = [s \in Sinks |-> "none"]
  /\ hgen = [s \in Sinks |-> 0]
  /\ hhub = [s \in Sinks |-> 0]
  /\ sock = [s \in Sinks |-> "none"]
  /\ nrem = [s \in Sinks |-> 0]
  /\ bpc = [i \in Bcasts |-> IF i <= nb THEN "none" ELSE "unused"]
  /\ bhub = [i \in Bcasts |-> 0]
  /\ bloop = [i \in Bcasts |-> 0]
  /\ bsnap = [i \in Bcasts |-> {}]
  /\ spc = [i \in Bcasts |-> [s \in Sinks |-> "none"]]
  /\ bphase = [i \in Bcasts |-> "none"]
  /\ bdown = [i \in Bcasts |-> FALSE]
  /\ ipc = "idle" /\ iloop = 0 /\ ihub = 0 /\ iphase = "none" /\ iraised = FALSE
  /\ dpc = [k \in Stops |-> IF k <= ns THEN "none" ELSE "unused"]
  /\ dloop = [k \in Stops |-> 0]
  /\ dhub = [k \in Stops |-> 0]
  /\ dsnap = [k \in Stops |-> {}]
  /\ dclosed = [k \in Stops |-> {}]
  /\ dcur = [k \in Stops |-> 0]
  /\ dsrv = [k \in Stops |-> 0]
  /\ stopSeq = "none" /\ preStop = {}
  /\ handles = <<>> /\ kbHooks = {} /\ debugHook = FALSE
  /\ hkLog = {} /\ lastApply = NoApply
  /\ wpc = "none" /\ wsent = <<>> /\ wrecv = <<>>
  /\ rcall = NoCall /\ rraised = FALSE

Init == InitWith(MaxBcast, MaxStops, NoClients)

\* ------------------------------------------------------------ GUI thread

\* The generation the next started server thread gets.
NextGen == CHOOSE g \in Gens : tpc[g] = "idle" /\ \A h \in Gens : tpc[h] = "idle" => g <= h

\* The next unused stop() / broadcast number.
NextStop == CHOOSE k \in Stops : dpc[k] = "none" /\ \A j \in Stops : dpc[j] = "none" => k <= j
NextBcast == CHOOSE i \in Bcasts : bpc[i] = "none" /\ \A j \in Bcasts : bpc[j] = "none" => i <= j

\* The sinks that are connected: registered with a hub over an open transport.
Connected == {s \in Sinks : sock[s] = "open" /\ \E g \in Gens : s \in clients[g]}

\* Variant of StartGuard for sensitivity: start() without its guard.
StartUnguarded == TRUE
\* start(): "if self._running: return".
StartGuard == ~running

\* start() while not running: sets the flag and starts the server thread.
Start ==
  /\ StartGuard
  /\ \E g \in Gens : tpc[g] = "idle"
  /\ running' = TRUE
  /\ tpc' = [tpc EXCEPT ![NextGen] = "spawned"]
  /\ stopSeq' = IF stopSeq = "stopped" THEN "restarted" ELSE stopSeq
  /\ UNCHANGED <<loopRef, hubRef, serverRef, clientCount, errLog>>
  /\ UNCHANGED <<xpc, wsrv, listener, clients, lock, ready, cur, batch, stopping>>
  /\ UNCHANGED <<conns, bcasts, input, downs, preStop>>
  /\ UNCHANGED aux

\* start() right after a stop(), while the flag is still set: returns at once.
StartNoop ==
  /\ ~StartGuard
  /\ stopSeq = "stopped"
  /\ stopSeq' = "restarted"
  /\ UNCHANGED <<ctrl, loops, conns, bcasts, input, downs, preStop>>
  /\ UNCHANGED aux

\* stop() while no loop has been published yet: only clears the flag.
StopNoLoop ==
  /\ running
  /\ loopRef = 0
  /\ \E k \in Stops : dpc[k] = "none"
  /\ dpc' = [dpc EXCEPT ![NextStop] = "done"]
  /\ running' = FALSE
  /\ stopSeq' = "stopped"
  /\ preStop' = Connected
  /\ UNCHANGED <<loopRef, hubRef, serverRef, clientCount, errLog>>
  /\ UNCHANGED <<loops, conns, bcasts, input, dloop, dhub, dsnap, dclosed, dcur, dsrv>>
  /\ UNCHANGED aux

\* stop() with a published loop: schedules shutdown() on it and returns.
StopSchedule ==
  /\ running
  /\ loopRef # 0
  /\ ~LoopClosed(loopRef)
  /\ \E k \in Stops : dpc[k] = "none"
  /\ dpc' = [dpc EXCEPT ![NextStop] = "queued"]
  /\ dloop' = [dloop EXCEPT ![NextStop] = loopRef]
  /\ ready' = [ready EXCEPT ![loopRef] = Append(@, SubmitD(NextStop))]
  /\ stopSeq' = "stopped"
  /\ preStop' = Connected
  /\ UNCHANGED <<ctrl, tpc, xpc, wsrv, listener, clients, lock, cur, batch, stopping>>
  /\ UNCHANGED <<conns, bcasts, input, dhub, dsnap, dclosed, dcur, dsrv>>
  /\ UNCHANGED aux

\* stop() with a published loop that is already closed: run_coroutine_threadsafe
\* raises, the fallback call_soon_threadsafe raises too, both are swallowed.
StopClosedLoop ==
  /\ running
  /\ loopRef # 0
  /\ LoopClosed(loopRef)
  /\ \E k \in Stops : dpc[k] = "none"
  /\ dpc' = [dpc EXCEPT ![NextStop] = "done"]
  /\ stopSeq' = "stopped"
  /\ preStop' = Connected
  /\ UNCHANGED <<ctrl, loops, conns, bcasts, input, dloop, dhub, dsnap, dclosed, dcur, dsrv>>
  /\ UNCHANGED aux

\* ------------------------------------------------------------ server thread

\* run(): loop = asyncio.new_event_loop(); self._loop = loop.
ThreadNewLoop(g) ==
  /\ tpc[g] = "spawned"
  /\ tpc' = [tpc EXCEPT ![g] = "loopset"]
  /\ loopRef' = g
  /\ UNCHANGED <<running, hubRef, serverRef, clientCount, errLog>>
  /\ UNCHANGED <<xpc, wsrv, listener, clients, lock, ready, cur, batch, stopping>>
  /\ UNCHANGED <<conns, bcasts, input, downs, hist>>
  /\ UNCHANGED aux

\* run(): self._hub = Hub(loop), then run_until_complete(start_server()) wraps
\* the coroutine in a task and starts running the loop.
ThreadNewHub(g) ==
  /\ tpc[g] = "loopset"
  /\ tpc' = [tpc EXCEPT ![g] = "binding"]
  /\ hubRef' = g
  /\ xpc' = [xpc EXCEPT ![g] = "pending"]
  /\ ready' = [ready EXCEPT ![g] = Append(@, XTask(g))]
  /\ UNCHANGED <<running, loopRef, serverRef, clientCount, errLog>>
  /\ UNCHANGED <<wsrv, listener, clients, lock, cur, batch, stopping>>
  /\ UNCHANGED <<conns, bcasts, input, downs, hist>>
  /\ UNCHANGED aux

\* No server of this controller listens on the address.
AddressFree == \A h \in Gens : listener[h] # "open"

\* start_server() starts: it logs, and websockets.serve suspends while the
\* address is resolved.
StartServerBegin(g) ==
  /\ xpc[g] = "pending"
  /\ IsNext(g, XTask(g))
  /\ xpc' = [xpc EXCEPT ![g] = "resolving"]
  /\ ready' = [ready EXCEPT ![g] = Tail(@)]
  /\ batch' = [batch EXCEPT ![g] = BatchTaken(g, XTask(g))]
  /\ UNCHANGED <<ctrl, tpc, wsrv, listener, clients, lock, cur, stopping>>
  /\ UNCHANGED <<conns, bcasts, input, downs, hist>>
  /\ UNCHANGED aux

\* The address is resolved: start_server() is ready again.
Resolved(g) ==
  /\ xpc[g] = "resolving"
  /\ LoopRuns(g)
  /\ cur[g] = NoTask
  /\ xpc' = [xpc EXCEPT ![g] = "resolved"]
  /\ ready' = [ready EXCEPT ![g] = Append(@, XTask(g))]
  /\ UNCHANGED <<ctrl, tpc, wsrv, listener, clients, lock, cur, batch, stopping>>
  /\ UNCHANGED <<conns, bcasts, input, downs, hist>>
  /\ UNCHANGED aux

\* start_server(): the socket is bound and listens; create_server yields once
\* more before it returns.
BindOk(g) ==
  /\ xpc[g] = "resolved"
  /\ IsNext(g, XTask(g))
  /\ AddressFree
  /\ xpc' = [xpc EXCEPT ![g] = "bound"]
  /\ listener' = [listener EXCEPT ![g] = "open"]
  /\ ready' = [ready EXCEPT ![g] = Append(Tail(@), XTask(g))]
  /\ batch' = [batch EXCEPT ![g] = BatchTaken(g, XTask(g))]
  /\ UNCHANGED <<ctrl, tpc, wsrv, clients, lock, cur, stopping>>
  /\ UNCHANGED <<conns, bcasts, input, downs, hist>>
  /\ UNCHANGED aux

\* The ready queue of loop g once the start_server() task is done: its done
\* callback is scheduled while run_until_complete(start_server()) is waiting
\* for it (the callback is detached when run_until_complete is left).
ReadyAfterStartServer(g) ==
  [ready EXCEPT ![g] = IF tpc[g] = "binding" THEN Append(Tail(@), CTask(g)) ELSE Tail(@)]

\* start_server(): websockets.serve raises (the address is in use, by a server
\* of this controller or by any other process); the task is done.
BindFail(g) ==
  /\ xpc[g] = "resolved"
  /\ IsNext(g, XTask(g))
  /\ xpc' = [xpc EXCEPT ![g] = "fail"]
  /\ ready' = ReadyAfterStartServer(g)
  /\ batch' = [batch EXCEPT ![g] = BatchTaken(g, XTask(g))]
  /\ UNCHANGED <<ctrl, tpc, wsrv, listener, clients, lock, cur, stopping>>
  /\ UNCHANGED <<conns, bcasts, input, downs, hist>>
  /\ UNCHANGED aux

\* start_server() returns the listening server; the task is done.
StartServerReturn(g) ==
  /\ xpc[g] = "bound"
  /\ IsNext(g, XTask(g))
  /\ xpc' = [xpc EXCEPT ![g] = "ok"]
  /\ ready' = ReadyAfterStartServer(g)
  /\ batch' = [batch EXCEPT ![g] = BatchTaken(g, XTask(g))]
  /\ UNCHANGED <<ctrl, tpc, wsrv, listener, clients, lock, cur, stopping>>
  /\ UNCHANGED <<conns, bcasts, input, downs, hist>>
  /\ UNCHANGED aux

\* A listening socket whose server object was never handed to the controller
\* (its loop was stopped before start_server() returned) is closed when the
\* abandoned task is garbage-collected.
ListenerCollected(g) ==
  /\ LoopClosed(g)
  /\ listener[g] = "open"
  /\ listener' = [listener EXCEPT ![g] = "closed"]
  /\ UNCHANGED <<ctrl, tpc, xpc, wsrv, clients, lock, ready, cur, batch, stopping>>
  /\ UNCHANGED <<conns, bcasts, input, downs, hist>>
  /\ UNCHANGED aux

\* The done callback of run_until_complete: loop.stop().
RunUntilCompleteCb(g) ==
  /\ IsNext(g, CTask(g))
  /\ stopping' = [stopping EXCEPT ![g] = TRUE]
  /\ ready' = [ready EXCEPT ![g] = Tail(@)]
  /\ batch' = [batch EXCEPT ![g] = BatchTaken(g, CTask(g))]
  /\ UNCHANGED <<ctrl, tpc, xpc, wsrv, listener, clients, lock, cur>>
  /\ UNCHANGED <<conns, bcasts, input, downs, hist>>
  /\ UNCHANGED aux

\* Where the thread of loop g continues when its loop stops running:
\* run_until_complete(start_server()) returns the server ("serving": the
\* assignment to self._server and run_forever()), or raises, or run_forever()
\* returns ("stopped": the except and finally blocks), or the finally block's
\* run_until_complete is over ("closed": loop.close()).
TpcAfterStop(g) ==
  IF tpc[g] = "binding" THEN (IF xpc[g] = "ok" THEN "serving" ELSE "stopped")
  ELSE IF tpc[g] = "serving" THEN "stopped"
  ELSE "closed"

\* The except block logs "[서버] 오류" when run_until_complete(start_server())
\* raised: the bind failed, or the loop was stopped before the bind was done.
ErrLogAfterStop(g) ==
  IF tpc[g] = "binding" /\ xpc[g] # "ok" THEN errLog \cup {g} ELSE errLog

\* The loop leaves its run loop at the end of an iteration in which loop.stop()
\* was called.
LoopExit(g) ==
  /\ LoopRuns(g)
  /\ cur[g] = NoTask
  /\ stopping[g]
  /\ batch[g] = 0
  /\ tpc' = [tpc EXCEPT ![g] = TpcAfterStop(g)]
  /\ errLog' = ErrLogAfterStop(g)
  /\ serverRef' = IF tpc[g] = "binding" /\ xpc[g] = "ok" THEN g ELSE serverRef
  /\ stopping' = [stopping EXCEPT ![g] = FALSE]
  /\ UNCHANGED <<running, loopRef, hubRef, clientCount>>
  /\ UNCHANGED <<xpc, wsrv, listener, clients, lock, ready, cur, batch>>
  /\ UNCHANGED <<conns, bcasts, input, downs, hist>>
  /\ UNCHANGED aux

\* finally: "if self._server is not None: self._server.close()" and the start
\* of run_until_complete(self._server.wait_closed()); with no server, loop.close().
FinallyCloseServer(g) ==
  /\ tpc[g] = "stopped"
  /\ IF serverRef = 0
       THEN /\ tpc' = [tpc EXCEPT ![g] = "closed"]
            /\ UNCHANGED <<wsrv, listener, ready, hpc, sock>>
       ELSE /\ tpc' = [tpc EXCEPT ![g] = "waiting"]
            /\ wsrv' = [wsrv EXCEPT ![g] = serverRef]
            /\ listener' = ListenerAfterClose(serverRef)
            /\ sock' = SockAfterClose(SinksOf(serverRef))
            /\ hpc' = HpcAfterClose(SinksOf(serverRef))
            /\ ready' = ReadyAfterClose([ready EXCEPT ![g] = Append(@, WTask(g))],
                                        SinksOf(serverRef))
  /\ UNCHANGED <<ctrl, xpc, clients, lock, cur, batch, stopping>>
  /\ UNCHANGED <<hgen, hhub, nrem, bcasts, input, downs, hist>>
  /\ UNCHANGED aux

\* wait_closed() in the finally block.  Its first step is done at once when the
\* server is closed with all handlers returned, or when it belongs to another
\* loop (awaiting its future raises); otherwise the task suspends ("blocked")
\* and resumes when every handler has returned.  Once done, the done callback
\* of run_until_complete is scheduled.
FinallyWait(g) ==
  /\ \/ /\ IsNext(g, WTask(g))
        /\ IF wsrv[g] # g \/ ClosedFully(wsrv[g])
             THEN /\ ready' = [ready EXCEPT ![g] = Append(Tail(@), CTask(g))]
                  /\ UNCHANGED tpc
             ELSE /\ ready' = [ready EXCEPT ![g] = Tail(@)]
                  /\ tpc' = [tpc EXCEPT ![g] = "blocked"]
        /\ batch' = [batch EXCEPT ![g] = BatchTaken(g, WTask(g))]
     \/ /\ tpc[g] = "blocked"
        /\ cur[g] = NoTask
        /\ ClosedFully(wsrv[g])
        /\ tpc' = [tpc EXCEPT ![g] = "waiting"]
        /\ ready' = [ready EXCEPT ![g] = Append(@, CTask(g))]
        /\ UNCHANGED batch
  /\ UNCHANGED <<ctrl, xpc, wsrv, listener, clients, lock, cur, stopping>>
  /\ UNCHANGED <<conns, bcasts, input, downs, hist>>
  /\ UNCHANGED aux

\* finally: after loop.close(), "self._running = False" and the thread ends.
ThreadExit(g) ==
  /\ tpc[g] = "closed"
  /\ tpc' = [tpc EXCEPT ![g] = "done"]
  /\ running' = FALSE
  /\ UNCHANGED <<loopRef, hubRef, serverRef, clientCount, errLog>>
  /\ UNCHANGED <<xpc, wsrv, listener, clients, lock, ready, cur, batch, stopping>>
  /\ UNCHANGED <<conns, bcasts, input, downs, hist>>
  /\ UNCHANGED aux

\* ------------------------------------------------------------ connections

\* A client connects to the listening server of generation g and websockets
\* starts the handler task.  The opening handshake takes several iterations of
\* the loop, more than run_until_complete(start_server()) has left once the
\* socket listens, so handlers start under run_forever().  Sinks are numbered
\* in the order they connect.
Connect(s, g) ==
  /\ hpc[s] = "none"
  /\ \A r \in Sinks : r < s => hpc[r] # "none"
  /\ tpc[g] = "serving"
  /\ listener[g] = "open"
  /\ hpc' = [hpc EXCEPT ![s] = "new"]
  /\ hgen' = [hgen EXCEPT ![s] = g]
  /\ sock' = [sock EXCEPT ![s] = "open"]
  /\ ready' = [ready EXCEPT ![g] = Append(@, HTask(s))]
  /\ UNCHANGED <<ctrl, tpc, xpc, wsrv, listener, clients, lock, cur, batch, stopping>>
  /\ UNCHANGED <<hhub, nrem, bcasts, input, downs, hist>>
  /\ UNCHANGED aux

\* handler(): "self._client_count += 1" / "max(0, self._client_count - 1)".
CountAfterConnect(c) == c + 1
\* Variant of CountAfterDisconnect for sensitivity: no decrement.
CountKept(c) == c
CountAfterDisconnect(c) == Max(0, c - 1)

\* Hub.add / Hub.remove on the hub h.
ClientsAfterAdd(h, s) == [clients EXCEPT ![h] = @ \cup {s}]
ClientsAfterRemove(h, s) == [clients EXCEPT ![h] = @ \ {s}]

\* handler(): the counter is incremented under the counter lock.
HandlerCount(s) ==
  /\ hpc[s] = "new"
  /\ IsNext(hgen[s], HTask(s))
  /\ clientCount' = CountAfterConnect(clientCount)
  /\ hpc' = [hpc EXCEPT ![s] = "counted"]
  /\ cur' = [cur EXCEPT ![hgen[s]] = HTask(s)]
  /\ ready' = [ready EXCEPT ![hgen[s]] = Tail(@)]
  /\ batch' = [batch EXCEPT ![hgen[s]] = BatchTaken(hgen[s], HTask(s))]
  /\ UNCHANGED <<running, loopRef, hubRef, serverRef, errLog>>
  /\ UNCHANGED <<tpc, xpc, wsrv, listener, clients, lock, stopping>>
  /\ UNCHANGED <<hgen, hhub, sock, nrem, bcasts, input, downs, hist>>
  /\ UNCHANGED aux

\* handler() evaluates self._hub and calls ws_handler: hub.add(ws), then the
\* hello send, which suspends on an open transport and raises on a closed one.
HandlerRegister(s) ==
  /\ hpc[s] = "counted"
  /\ cur[hgen[s]] = HTask(s)
  /\ lock[hubRef] = NoTask
  /\ hhub' = [hhub EXCEPT ![s] = hubRef]
  /\ clients' = ClientsAfterAdd(hubRef, s)
  /\ IF sock[s] = "open"
       THEN /\ hpc' = [hpc EXCEPT ![s] = "hello"]
            /\ cur' = [cur EXCEPT ![hgen[s]] = NoTask]
       ELSE /\ hpc' = [hpc EXCEPT ![s] = "cleanup"]
            /\ UNCHANGED cur
  /\ UNCHANGED <<ctrl, tpc, xpc, wsrv, listener, lock, ready, batch, stopping>>
  /\ UNCHANGED <<hgen, sock, nrem, bcasts, input, downs, hist>>
  /\ UNCHANGED aux

\* The hello frame is written; the handler waits in "async for msg in ws".
HelloSent(s) ==
  /\ hpc[s] = "hello"
  /\ LoopRuns(hgen[s])
  /\ cur[hgen[s]] = NoTask
  /\ hpc' = [hpc EXCEPT ![s] = "open"]
  /\ UNCHANGED <<ctrl, loops, hgen, hhub, sock, nrem, bcasts, input, downs, hist>>
  /\ UNCHANGED aux

\* The peer closes the connection (or the network drops it).
PeerClose(s) ==
  /\ sock[s] = "open"
  /\ sock' = SockAfterClose({s})
  /\ hpc' = HpcAfterClose({s})
  /\ ready' = ReadyAfterClose(ready, {s})
  /\ UNCHANGED <<ctrl, tpc, xpc, wsrv, listener, clients, lock, cur, batch, stopping>>
  /\ UNCHANGED <<hgen, hhub, nrem, bcasts, input, downs, hist>>
  /\ UNCHANGED aux

\* ws_handler's finally: hub.remove(ws).
HandlerUnregister(s) ==
  /\ hpc[s] = "cleanup"
  /\ Runs(hgen[s], HTask(s))
  /\ lock[hhub[s]] = NoTask
  /\ clients' = ClientsAfterRemove(hhub[s], s)
  /\ nrem' = [nrem EXCEPT ![s] = @ + 1]
  /\ hpc' = [hpc EXCEPT ![s] = "removed"]
  /\ ready' = [ready EXCEPT ![hgen[s]] = Taken(hgen[s], HTask(s))]
  /\ batch' = [batch EXCEPT ![hgen[s]] = BatchTaken(hgen[s], HTask(s))]
  /\ cur' = [cur EXCEPT ![hgen[s]] = HTask(s)]
  /\ UNCHANGED <<ctrl, tpc, xpc, wsrv, listener, lock, stopping>>
  /\ UNCHANGED <<hgen, hhub, sock, bcasts, input, downs, hist>>
  /\ UNCHANGED aux

\* handler()'s finally: the counter is decremented and the handler returns.
HandlerEnd(s) ==
  /\ hpc[s] = "removed"
  /\ cur[hgen[s]] = HTask(s)
  /\ clientCount' = CountAfterDisconnect(clientCount)
  /\ hpc' = [hpc EXCEPT ![s] = "done"]
  /\ cur' = [cur EXCEPT ![hgen[s]] = NoTask]
  /\ UNCHANGED <<running, loopRef, hubRef, serverRef, errLog>>
  /\ UNCHANGED <<tpc, xpc, wsrv, listener, clients, lock, ready, batch, stopping>>
  /\ UNCHANGED <<hgen, hhub, sock, nrem, bcasts, input, downs, hist>>
  /\ UNCHANGED aux

\* ------------------------------------------------------------ input thread

\* WsServerController.broadcast: "loop = self._loop".
SubmitReadLoop ==
  /\ ipc = "idle"
  /\ \E i \in Bcasts : bpc[i] = "none"
  /\ ipc' = "gotLoop"
  /\ iloop' = loopRef
  /\ iphase' = stopSeq
  /\ UNCHANGED <<ctrl, loops, conns, bcasts, ihub, iraised, downs, hist>>
  /\ UNCHANGED aux

\* WsServerController.broadcast: "hub = self._hub".
SubmitReadHub ==
  /\ ipc = "gotLoop"
  /\ ipc' = "gotHub"
  /\ ihub' = hubRef
  /\ UNCHANGED <<ctrl, loops, conns, bcasts, iloop, iphase, iraised, downs, hist>>
  /\ UNCHANGED aux

\* WsServerController.broadcast: "if not self._running or loop is None or hub
\* is None: return".
SubmitGuard == running /\ iloop # 0 /\ ihub # 0

\* Variant of SubmitExcept for sensitivity: the exception reaches the caller.
SubmitExceptRaises == TRUE
\* WsServerController.broadcast: what an exception of run_coroutine_threadsafe
\* does to the calling thread ("except Exception: pass": nothing).
SubmitExcept == iraised

\* WsServerController.broadcast returns without scheduling anything.
SubmitNoop ==
  /\ ipc = "gotHub"
  /\ ~SubmitGuard
  /\ ipc' = "idle" /\ iloop' = 0 /\ ihub' = 0 /\ iphase' = "none"
  /\ UNCHANGED <<ctrl, loops, conns, bcasts, iraised, downs, hist>>
  /\ UNCHANGED aux

\* run_coroutine_threadsafe on a closed loop raises RuntimeError.
SubmitOnClosedLoop ==
  /\ ipc = "gotHub"
  /\ SubmitGuard
  /\ LoopClosed(iloop)
  /\ ipc' = "idle" /\ iloop' = 0 /\ ihub' = 0 /\ iphase' = "none"
  /\ iraised' = SubmitExcept
  /\ UNCHANGED <<ctrl, loops, conns, bcasts, downs, hist>>
  /\ UNCHANGED aux

\* run_coroutine_threadsafe(hub.broadcast(payload), loop): the coroutine becomes
\* a task of the loop that was read.
SubmitSchedule ==
  /\ ipc = "gotHub"
  /\ SubmitGuard
  /\ ~LoopClosed(iloop)
  /\ ipc' = "idle" /\ iloop' = 0 /\ ihub' = 0 /\ iphase' = "none"
  /\ bpc' = [bpc EXCEPT ![NextBcast] = "queued"]
  /\ bhub' = [bhub EXCEPT ![NextBcast] = ihub]
  /\ bloop' = [bloop EXCEPT ![NextBcast] = iloop]
  /\ bphase' = [bphase EXCEPT ![NextBcast] = iphase]
  /\ bdown' = [bdown EXCEPT ![NextBcast] = RuntimeDown]
  /\ ready' = [ready EXCEPT ![iloop] = Append(@, SubmitB(NextBcast))]
  /\ UNCHANGED <<ctrl, tpc, xpc, wsrv, listener, clients, lock, cur, batch, stopping>>
  /\ UNCHANGED <<conns, bsnap, spc, iraised, downs, hist>>
  /\ UNCHANGED aux

\* ------------------------------------------------------------ Hub.broadcast

\* Variant of Snapshot for sensitivity: the copy holds every sink the server
\* accepted, registered by its handler or not yet.
SnapshotAccepted(h) == SinksOf(h)
\* Variant of Snapshot for sensitivity: the copy keeps one member only.
SnapshotOne(h) == IF clients[h] = {} THEN {} ELSE {CHOOSE s \in clients[h] : TRUE}
\* Hub.broadcast: "async with self._lock: targets = list(self.clients)".
Snapshot(h) == clients[h]

\* Variant of LockAfterSnapshot for sensitivity: the sends inside the
\* "async with".
LockKeptAfterSnapshot(h) == lock
\* Hub.broadcast: leaving "async with self._lock" before the sends.
LockAfterSnapshot(h) == [lock EXCEPT ![h] = NoTask]

\* Hub._safe_send: how a send that raised ends ("except Exception: pass": the
\* task completes normally, as a failed send).
SafeSendExcept == "fail"

\* Variant of ClientsAfterSendFailure for sensitivity: the failed sink is
\* discarded by the sender.
ClientsDropFailed(h, s) == [clients EXCEPT ![h] = @ \ {s}]
\* Hub._safe_send: the registry after a send that raised (untouched).
ClientsAfterSendFailure(h, s) == clients

\* Variant of SiblingsAfterFailure for sensitivity: a failed send abandons the
\* sends of the fan-out that have not completed.
SiblingsAbandoned(p) == [s \in Sinks |-> IF p[s] \in {"ready", "io"} THEN "fail" ELSE p[s]]
\* asyncio.gather / _safe_send: what a failed send does to the other sends p of
\* the same fan-out (nothing: each runs as a task of its own).
SiblingsAfterFailure(p) == p

\* The sends of broadcast i that have been attempted / have failed / delivered.
Attempted(i) == {s \in Sinks : spc[i][s] \in {"io", "ok", "fail", "raised"}}
Failed(i) == {s \in Sinks : spc[i][s] \in {"fail", "raised"}}
Delivered(i) == {s \in Sinks : spc[i][s] = "ok"}

\* How asyncio.gather over the sends p of the snapshot leaves the broadcast:
\* still waiting, all sends returned, or a send raised.
GatherState(p, snap) ==
  IF \E s \in snap : p[s] = "raised" THEN "raised"
  ELSE IF \A s \in snap : p[s] \in {"ok", "fail"} THEN "done"
  ELSE "gather"

\* Broadcast i after one of its sends moved and left the sends as p: when the
\* gather completes, the broadcast coroutine is made ready again.
BpcAfterSend(i, p) ==
  [bpc EXCEPT ![i] = IF @ = "gather" THEN GatherState(p, bsnap[i]) ELSE @]
ReadyAfterSend(q, i, p) ==
  IF bpc[i] = "gather" /\ GatherState(p, bsnap[i]) # "gather"
    THEN [q EXCEPT ![bloop[i]] = Append(@, BTask(i))]
    ELSE q

\* The locals of a coroutine that has returned.
NoSends == [s \in Sinks |-> "none"]

\* The callback of run_coroutine_threadsafe runs on the loop: the broadcast
\* coroutine becomes a task.
SpawnBcast(i) ==
  /\ bpc[i] = "queued"
  /\ IsNext(bloop[i], SubmitB(i))
  /\ ready' = [ready EXCEPT ![bloop[i]] = Append(Tail(@), BTask(i))]
  /\ batch' = [batch EXCEPT ![bloop[i]] = BatchTaken(bloop[i], SubmitB(i))]
  /\ UNCHANGED <<ctrl, tpc, xpc, wsrv, listener, clients, lock, cur, stopping>>
  /\ UNCHANGED <<conns, bcasts, input, downs, hist>>
  /\ UNCHANGED aux

\* Hub.broadcast starts: takes the lock and copies the membership.
BcastSnapshot(i) ==
  /\ bpc[i] = "queued"
  /\ IsNext(bloop[i], BTask(i))
  /\ lock[bhub[i]] = NoTask
  /\ lock' = [lock EXCEPT ![bhub[i]] = BTask(i)]
  /\ bsnap' = [bsnap EXCEPT ![i] = Snapshot(bhub[i])]
  /\ bpc' = [bpc EXCEPT ![i] = "locked"]
  /\ cur' = [cur EXCEPT ![bloop[i]] = BTask(i)]
  /\ ready' = [ready EXCEPT ![bloop[i]] = Tail(@)]
  /\ batch' = [batch EXCEPT ![bloop[i]] = BatchTaken(bloop[i], BTask(i))]
  /\ UNCHANGED <<ctrl, tpc, xpc, wsrv, listener, clients, stopping>>
  /\ UNCHANGED <<conns, bhub, bloop, spc, bphase, bdown, input, downs, hist>>
  /\ UNCHANGED aux

\* Hub.broadcast goes on: releases the lock; "if not targets: return";
\* asyncio.gather creates one _safe_send task per target and suspends.
BcastGather(i) ==
  /\ bpc[i] = "locked"
  /\ cur[bloop[i]] = BTask(i)
  /\ lock' = LockAfterSnapshot(bhub[i])
  /\ cur' = [cur EXCEPT ![bloop[i]] = NoTask]
  /\ IF bsnap[i] = {}
       THEN /\ bpc' = [bpc EXCEPT ![i] = "finished"]
            /\ bhub' = [bhub EXCEPT ![i] = 0]
            /\ bloop' = [bloop EXCEPT ![i] = 0]
            /\ bphase' = [bphase EXCEPT ![i] = "none"]
            /\ bdown' = [bdown EXCEPT ![i] = FALSE]
            /\ UNCHANGED <<spc, ready>>
       ELSE /\ bpc' = [bpc EXCEPT ![i] = "gather"]
            /\ spc' = [spc EXCEPT ![i] = [s \in Sinks |-> IF s \in bsnap[i] THEN "ready" ELSE "none"]]
            /\ ready' = [ready EXCEPT ![bloop[i]] =
                 @ \o [n \in 1..Cardinality(bsnap[i]) |-> STask(i, SetToSeq(bsnap[i])[n])]]
            /\ UNCHANGED <<bhub, bloop, bphase, bdown>>
  /\ UNCHANGED <<ctrl, tpc, xpc, wsrv, listener, clients, batch, stopping>>
  /\ UNCHANGED <<conns, bsnap, input, downs, hist>>
  /\ UNCHANGED aux

\* Hub._safe_send(ws, payload) runs: ws.send is attempted. On an open transport
\* the frame is written and the task suspends until it is flushed; on a closed
\* one ws.send raises ConnectionClosed, which _safe_send swallows.
SendStart(i, s) ==
  /\ spc[i][s] = "ready"
  /\ IsNext(bloop[i], STask(i, s))
  /\ LET p == IF sock[s] = "open"
                THEN [spc[i] EXCEPT ![s] = "io"]
                ELSE SiblingsAfterFailure([spc[i] EXCEPT ![s] = SafeSendExcept])
     IN /\ spc' = [spc EXCEPT ![i] = p]
        /\ bpc' = BpcAfterSend(i, p)
        /\ ready' = ReadyAfterSend([ready EXCEPT ![bloop[i]] = Tail(@)], i, p)
        /\ clients' = IF sock[s] = "open" THEN clients ELSE ClientsAfterSendFailure(bhub[i], s)
  /\ batch' = [batch EXCEPT ![bloop[i]] = BatchTaken(bloop[i], STask(i, s))]
  /\ UNCHANGED <<ctrl, tpc, xpc, wsrv, listener, lock, cur, stopping>>
  /\ UNCHANGED <<conns, bhub, bloop, bsnap, bphase, bdown, input, downs, hist>>
  /\ UNCHANGED aux

\* A send in flight completes: delivered if the transport is still open, raised
\* (and swallowed) if it was closed meanwhile.
SendDone(i, s) ==
  /\ spc[i][s] = "io"
  /\ LoopRuns(bloop[i])
  /\ cur[bloop[i]] = NoTask
  /\ LET p == IF sock[s] = "open"
                THEN [spc[i] EXCEPT ![s] = "ok"]
                ELSE SiblingsAfterFailure([spc[i] EXCEPT ![s] = SafeSendExcept])
     IN /\ spc' = [spc EXCEPT ![i] = p]
        /\ bpc' = BpcAfterSend(i, p)
        /\ ready' = ReadyAfterSend(ready, i, p)
        /\ clients' = IF sock[s] = "open" THEN clients ELSE ClientsAfterSendFailure(bhub[i], s)
  /\ UNCHANGED <<ctrl, tpc, xpc, wsrv, listener, lock, cur, batch, stopping>>
  /\ UNCHANGED <<conns, bhub, bloop, bsnap, bphase, bdown, input, downs, hist>>
  /\ UNCHANGED aux

\* Hub.broadcast resumes after the gather and returns (or, had a send raised,
\* ends with that exception, which nobody retrieves).
BcastReturn(i) ==
  /\ bpc[i] \in {"done", "raised"}
  /\ IsNext(bloop[i], BTask(i))
  /\ ready' = [ready EXCEPT ![bloop[i]] = Tail(@)]
  /\ batch' = [batch EXCEPT ![bloop[i]] = BatchTaken(bloop[i], BTask(i))]
  /\ bpc' = [bpc EXCEPT ![i] = IF @ = "raised" THEN "crashed" ELSE "finished"]
  /\ bhub' = [bhub EXCEPT ![i] = 0]
  /\ bloop' = [bloop EXCEPT ![i] = 0]
  /\ bsnap' = [bsnap EXCEPT ![i] = {}]
  /\ spc' = [spc EXCEPT ![i] = NoSends]
  /\ bphase' = [bphase EXCEPT ![i] = "none"]
  /\ bdown' = [bdown EXCEPT ![i] = FALSE]
  /\ UNCHANGED <<ctrl, tpc, xpc, wsrv, listener, clients, lock, cur, stopping>>
  /\ UNCHANGED <<conns, input, downs, hist>>
  /\ UNCHANGED aux

\* ------------------------------------------------------------ shutdown()

\* shutdown(): how "await c.close()" raising ends ("except Exception: pass":
\* the for loop goes on with the next client).
CloseExcept == "loop"

\* The callback of run_coroutine_threadsafe runs on the loop: the shutdown
\* coroutine becomes a task.
SpawnShutdown(k) ==
  /\ dpc[k] = "queued"
  /\ IsNext(dloop[k], SubmitD(k))
  /\ ready' = [ready EXCEPT ![dloop[k]] = Append(Tail(@), DTask(k))]
  /\ batch' = [batch EXCEPT ![dloop[k]] = BatchTaken(dloop[k], SubmitD(k))]
  /\ UNCHANGED <<ctrl, tpc, xpc, wsrv, listener, clients, lock, cur, stopping>>
  /\ UNCHANGED <<conns, bcasts, input, downs, hist>>
  /\ UNCHANGED aux

\* shutdown() starts: "async with self._hub._lock: clients = list(self._hub.clients)".
ShutSnapshot(k) ==
  /\ dpc[k] = "queued"
  /\ IsNext(dloop[k], DTask(k))
  /\ lock[hubRef] = NoTask
  /\ lock' = [lock EXCEPT ![hubRef] = DTask(k)]
  /\ dsnap' = [dsnap EXCEPT ![k] = Snapshot(hubRef)]
  /\ dhub' = [dhub EXCEPT ![k] = hubRef]
  /\ dpc' = [dpc EXCEPT ![k] = "locked"]
  /\ cur' = [cur EXCEPT ![dloop[k]] = DTask(k)]
  /\ ready' = [ready EXCEPT ![dloop[k]] = Tail(@)]
  /\ batch' = [batch EXCEPT ![dloop[k]] = BatchTaken(dloop[k], DTask(k))]
  /\ UNCHANGED <<ctrl, tpc, xpc, wsrv, listener, clients, stopping>>
  /\ UNCHANGED <<conns, bcasts, input, dloop, dclosed, dcur, dsrv, hist>>
  /\ UNCHANGED aux

\* The hub lock once shutdown() number k has gone past its "async with".
LockAfterShut(k) == IF dpc[k] = "locked" THEN LockAfterSnapshot(dhub[k]) ELSE lock

\* shutdown() number k is in its body after the snapshot: it has just taken
\* the snapshot or is back from a close.
InBody(k) == dpc[k] \in {"locked", "loop"}

\* shutdown(): "for c in clients: await c.close()" reaches client c: the close
\* is attempted and the coroutine suspends until the closing handshake ends.
ShutCloseNext(k, c) ==
  /\ InBody(k)
  /\ Runs(dloop[k], DTask(k))
  /\ c \in dsnap[k] \ dclosed[k]
  /\ lock' = LockAfterShut(k)
  /\ dclosed' = [dclosed EXCEPT ![k] = @ \cup {c}]
  /\ dcur' = [dcur EXCEPT ![k] = c]
  /\ dpc' = [dpc EXCEPT ![k] = "closing"]
  /\ cur' = [cur EXCEPT ![dloop[k]] = NoTask]
  /\ sock' = SockAfterClose({c})
  /\ hpc' = HpcAfterClose({c})
  /\ ready' = ReadyAfterClose([ready EXCEPT ![dloop[k]] = Taken(dloop[k], DTask(k))], {c})
  /\ batch' = [batch EXCEPT ![dloop[k]] = BatchTaken(dloop[k], DTask(k))]
  /\ UNCHANGED <<ctrl, tpc, xpc, wsrv, listener, clients, stopping>>
  /\ UNCHANGED <<hgen, hhub, nrem, bcasts, input, dloop, dhub, dsnap, dsrv, hist>>
  /\ UNCHANGED aux

\* "await c.close()" returns (ok) or raises (not ok).
CloseDone(k, ok) ==
  /\ dpc[k] = "closing"
  /\ LoopRuns(dloop[k])
  /\ cur[dloop[k]] = NoTask
  /\ dpc' = [dpc EXCEPT ![k] = IF ok THEN "loop" ELSE CloseExcept]
  /\ dcur' = [dcur EXCEPT ![k] = 0]
  /\ ready' = [ready EXCEPT ![dloop[k]] = Append(@, DTask(k))]
  /\ UNCHANGED <<ctrl, tpc, xpc, wsrv, listener, clients, lock, cur, batch, stopping>>
  /\ UNCHANGED <<conns, bcasts, input, dloop, dhub, dsnap, dclosed, dsrv, hist>>
  /\ UNCHANGED aux

\* The for loop over the clients is over (or was left by an exception).
ClosesOver(k) == dpc[k] = "abort" \/ (InBody(k) /\ dsnap[k] \subseteq dclosed[k])

\* Variant of StoppingAfterStop for sensitivity: shutdown() ends without
\* loop.stop().
StoppingKept(g) == stopping
\* shutdown() calls loop.stop() on its loop g.
StoppingAfterStop(g) == [stopping EXCEPT ![g] = TRUE]

\* shutdown() is past its for loop. "if self._server is not None:
\* self._server.close(); await self._server.wait_closed()": with the server of
\* its own loop the coroutine suspends until that server is closed; with no
\* server, or with the server of another thread (close() takes effect there,
\* awaiting wait_closed() raises at once, swallowed), it goes straight on to
\* loop.stop().
ShutCloseServer(k) ==
  /\ ClosesOver(k)
  /\ Runs(dloop[k], DTask(k))
  /\ lock' = LockAfterShut(k)
  /\ cur' = [cur EXCEPT ![dloop[k]] = NoTask]
  /\ batch' = [batch EXCEPT ![dloop[k]] = BatchTaken(dloop[k], DTask(k))]
  /\ LET S == IF serverRef = 0 THEN {} ELSE SinksOf(serverRef)
     IN /\ listener' = IF serverRef = 0 THEN listener ELSE ListenerAfterClose(serverRef)
        /\ sock' = SockAfterClose(S)
        /\ hpc' = HpcAfterClose(S)
        /\ ready' = ReadyAfterClose([ready EXCEPT ![dloop[k]] = Taken(dloop[k], DTask(k))], S)
  /\ IF serverRef = dloop[k]
       THEN /\ dsrv' = [dsrv EXCEPT ![k] = serverRef]
            /\ dpc' = [dpc EXCEPT ![k] = "waitClosed"]
            /\ UNCHANGED <<stopping, dloop, dhub, dsnap, dclosed>>
       ELSE /\ dpc' = [dpc EXCEPT ![k] = "done"]
            /\ dloop' = [dloop EXCEPT ![k] = 0]
            /\ dhub' = [dhub EXCEPT ![k] = 0]
            /\ dsnap' = [dsnap EXCEPT ![k] = {}]
            /\ dclosed' = [dclosed EXCEPT ![k] = {}]
            /\ dsrv' = [dsrv EXCEPT ![k] = 0]
            /\ stopping' = StoppingAfterStop(dloop[k])
  /\ UNCHANGED <<ctrl, tpc, xpc, wsrv, clients>>
  /\ UNCHANGED <<hgen, hhub, nrem, bcasts, input, dcur, hist>>
  /\ UNCHANGED aux

\* wait_closed() of the loop's own server returns: the coroutine is ready again.
ShutWaitDone(k) ==
  /\ dpc[k] = "waitClosed"
  /\ LoopRuns(dloop[k])
  /\ cur[dloop[k]] = NoTask
  /\ ClosedFully(dsrv[k])
  /\ dpc' = [dpc EXCEPT ![k] = "stop"]
  /\ ready' = [ready EXCEPT ![dloop[k]] = Append(@, DTask(k))]
  /\ UNCHANGED <<ctrl, tpc, xpc, wsrv, listener, clients, lock, cur, batch, stopping>>
  /\ UNCHANGED <<conns, bcasts, input, dloop, dhub, dsnap, dclosed, dcur, dsrv, hist>>
  /\ UNCHANGED aux

\* shutdown(): loop.stop() after wait_closed().
ShutStop(k) ==
  /\ dpc[k] = "stop"
  /\ IsNext(dloop[k], DTask(k))
  /\ dpc' = [dpc EXCEPT ![k] = "done"]
  /\ dloop' = [dloop EXCEPT ![k] = 0]
  /\ dhub' = [dhub EXCEPT ![k] = 0]
  /\ dsnap' = [dsnap EXCEPT ![k] = {}]
  /\ dclosed' = [dclosed EXCEPT ![k] = {}]
  /\ dsrv' = [dsrv EXCEPT ![k] = 0]
  /\ ready' = [ready EXCEPT ![dloop[k]] = Tail(@)]
  /\ batch' = [batch EXCEPT ![dloop[k]] = BatchTaken(dloop[k], DTask(k))]
  /\ stopping' = StoppingAfterStop(dloop[k])
  /\ UNCHANGED <<ctrl, tpc, xpc, wsrv, listener, clients, lock, cur>>
  /\ UNCHANGED <<conns, bcasts, input, dcur, hist>>
  /\ UNCHANGED aux

\* ------------------------------------------------------------ specification

Next ==
  \/ Start
  \/ StartNoop
  \/ StopNoLoop
  \/ StopSchedule
  \/ StopClosedLoop
  \/ \E g \in Gens : ThreadNewLoop(g)
  \/ \E g \in Gens : ThreadNewHub(g)
  \/ \E g \in Gens : StartServerBegin(g)
  \/ \E g \in Gens : Resolved(g)
  \/ \E g \in Gens : BindOk(g)
  \/ \E g \in Gens : StartServerReturn(g)
  \/ \E g \in Gens : ListenerCollected(g)
  \/ \E g \in Gens : BindFail(g)
  \/ \E g \in Gens : RunUntilCompleteCb(g)
  \/ \E g \in Gens : LoopExit(g)
  \/ \E g \in Gens : FinallyCloseServer(g)
  \/ \E g \in Gens : FinallyWait(g)
  \/ \E g \in Gens : ThreadExit(g)
  \/ \E s \in Sinks, g \in Gens : Connect(s, g)
  \/ \E s \in Sinks : HandlerCount(s)
  \/ \E s \in Sinks : HandlerRegister(s)
  \/ \E s \in Sinks : HelloSent(s)
  \/ \E s \in Sinks : PeerClose(s)
  \/ \E s \in Sinks : HandlerUnregister(s)
  \/ \E s \in Sinks : HandlerEnd(s)
  \/ SubmitReadLoop
  \/ SubmitReadHub
  \/ SubmitNoop
  \/ SubmitOnClosedLoop
  \/ SubmitSchedule
  \/ \E i \in Bcasts : SpawnBcast(i)
  \/ \E i \in Bcasts : BcastSnapshot(i)
  \/ \E i \in Bcasts : BcastGather(i)
  \/ \E i \in Bcasts, s \in Sinks : SendStart(i, s)
  \/ \E i \in Bcasts, s \in Sinks : SendDone(i, s)
  \/ \E i \in Bcasts : BcastReturn(i)
  \/ \E k \in Stops : SpawnShutdown(k)
  \/ \E k \in Stops : ShutSnapshot(k)
  \/ \E k \in Stops, c \in Sinks : ShutCloseNext(k, c)
  \/ \E k \in Stops, ok \in BOOLEAN : CloseDone(k, ok)
  \/ \E k \in Stops : ShutCloseServer(k)
  \/ \E k \in Stops : ShutWaitDone(k)
  \/ \E k \in Stops : ShutStop(k)

Spec == Init /\ [][Next]_vars

\* ------------------------------------------------------------ stop() again

\* The runs in which stop() may be called a second time; the input thread
\* submits nothing.
InitStopAgain == InitWith(0, MaxStopsAgain, NoClients)

NextStopAgain ==
  \/ Start
  \/ StartNoop
  \/ StopNoLoop
  \/ StopSchedule
  \/ StopClosedLoop
  \/ \E g \in Gens : ThreadNewLoop(g)
  \/ \E g \in Gens : ThreadNewHub(g)
  \/ \E g \in Gens : StartServerBegin(g)
  \/ \E g \in Gens : Resolved(g)
  \/ \E g \in Gens : BindOk(g)
  \/ \E g \in Gens : StartServerReturn(g)
  \/ \E g \in Gens : ListenerCollected(g)
  \/ \E g \in Gens : BindFail(g)
  \/ \E g \in Gens : RunUntilCompleteCb(g)
  \/ \E g \in Gens : LoopExit(g)
  \/ \E g \in Gens : FinallyCloseServer(g)
  \/ \E g \in Gens : FinallyWait(g)
  \/ \E g \in Gens : ThreadExit(g)
  \/ \E s \in Sinks, g \in Gens : Connect(s, g)
  \/ \E s \in Sinks : HandlerCount(s)
  \/ \E s \in Sinks : HandlerRegister(s)
  \/ \E s \in Sinks : HelloSent(s)
  \/ \E s \in Sinks : PeerClose(s)
  \/ \E s \in Sinks : HandlerUnregister(s)
  \/ \E s \in Sinks : HandlerEnd(s)
  \/ \E k \in Stops : SpawnShutdown(k)
  \/ \E k \in Stops : ShutSnapshot(k)
  \/ \E k \in Stops, c \in Sinks : ShutCloseNext(k, c)
  \/ \E k \in Stops, ok \in BOOLEAN : CloseDone(k, ok)
  \/ \E k \in Stops : ShutCloseServer(k)
  \/ \E k \in Stops : ShutWaitDone(k)
  \/ \E k \in Stops : ShutStop(k)

SpecStopAgain == InitStopAgain /\ [][NextStopAgain]_vars

\* ------------------------------------------------------------ no connections

\* The runs in which nobody connects and the input thread submits nothing.
InitQuiet == InitWith(0, MaxStopsAgain, NoClients)

NextQuiet ==
  \/ Start
  \/ StartNoop
  \/ StopNoLoop
  \/ StopSchedule
  \/ StopClosedLoop
  \/ \E g \in Gens : ThreadNewLoop(g)
  \/ \E g \in Gens : ThreadNewHub(g)
  \/ \E g \in Gens : StartServerBegin(g)
  \/ \E g \in Gens : Resolved(g)
  \/ \E g \in Gens : BindOk(g)
  \/ \E g \in Gens : StartServerReturn(g)
  \/ \E g \in Gens : ListenerCollected(g)
  \/ \E g \in Gens : BindFail(g)
  \/ \E g \in Gens : RunUntilCompleteCb(g)
  \/ \E g \in Gens : LoopExit(g)
  \/ \E g \in Gens : FinallyCloseServer(g)
  \/ \E g \in Gens : FinallyWait(g)
  \/ \E g \in Gens : ThreadExit(g)
  \/ \E k \in Stops : SpawnShutdown(k)
  \/ \E k \in Stops : ShutSnapshot(k)
  \/ \E k \in Stops : ShutCloseServer(k)
  \/ \E k \in Stops : ShutWaitDone(k)
  \/ \E k \in Stops : ShutStop(k)

\* The server thread is scheduled by the operating system and runs its loop,
\* the loop runs every ready callback and the resolver answers: each of these
\* steps is taken if it stays possible.  The calls of the GUI thread and the
\* failure of a bind are not forced.
FairQuiet ==
  /\ \A g \in Gens :
       /\ WF_vars(ThreadNewLoop(g)) /\ WF_vars(ThreadNewHub(g))
       /\ WF_vars(StartServerBegin(g)) /\ WF_vars(Resolved(g))
       /\ WF_vars(BindOk(g)) /\ WF_vars(StartServerReturn(g))
       /\ WF_vars(RunUntilCompleteCb(g)) /\ WF_vars(LoopExit(g))
       /\ WF_vars(FinallyCloseServer(g)) /\ WF_vars(FinallyWait(g))
       /\ WF_vars(ThreadExit(g))
  /\ \A k \in Stops :
       /\ WF_vars(SpawnShutdown(k)) /\ WF_vars(ShutSnapshot(k))
       /\ WF_vars(ShutCloseServer(k)) /\ WF_vars(ShutWaitDone(k))
       /\ WF_vars(ShutStop(k))

SpecQuiet == InitQuiet /\ [][NextQuiet]_vars /\ FairQuiet

\* ------------------------------------------------------------ HotkeyManager

\* Hotkey strings as sequences of characters: two single keys, a combination,
\* a name the keyboard library does not know, a blank string, and the empty
\* string (which stands for None as well: both are false in "if reset_hotkey").
F6 == <<"f", "6">>
F7 == <<"f", "7">>
CtrlF6 == <<"c", "t", "r", "l", "+", "f", "6">>
Unknown == <<"?", "?">>
Blank == <<" ">>
NoKey == <<>>
Keys == {F6, F7, CtrlF6, Unknown, Blank, NoKey}

\* str.strip().
RECURSIVE LStrip(_)
LStrip(q) == IF q # <<>> /\ Head(q) = " " THEN LStrip(Tail(q)) ELSE q
RECURSIVE RStrip(_)
RStrip(q) == IF q # <<>> /\ q[Len(q)] = " " THEN RStrip(SubSeq(q, 1, Len(q) - 1)) ELSE q
Strip(q) == RStrip(LStrip(q))

\* HotkeyManager._is_single_key_hotkey.
IsSingleKeyHotkey(hk) ==
  LET s == Strip(hk)
  IN s # <<>> /\ \A n \in 1..Len(s) : s[n] \notin {"+", ","}

\* keyboard.on_press_key / keyboard.add_hotkey raise for a name they cannot
\* map to a key.
KeyKnown(hk) == hk \in {F6, F7, CtrlF6}

\* The handle apply() stores for hotkey hk bound to callback cb.
Registration(hk, cb) == <<IF IsSingleKeyHotkey(hk) THEN "hook" ELSE "hotkey", hk, cb>>

\* The elements of a sequence.
Range(q) == {q[n] : n \in 1..Len(q)}

\* The trigger mapping in force: which hotkey fires which callback.
Registered == {<<h[2], h[3]>> : h \in kbHooks}

\* The mapping apply(toggle_hotkey, reset_hotkey, ...) is asked to install.
Want(t, r) == {<<t, "toggle">>} \cup (IF r # NoKey THEN {<<r, "reset">>} ELSE {})

\* HotkeyManager.clear(): every stored handle is removed from the keyboard
\* library, the list is emptied and the debug hook is taken down.
HooksAfterClear == kbHooks \ Range(handles)

\* apply(): the "try" around the toggle registration and the one around the
\* reset registration: a registration that raises is logged and skipped.
ToggleHandles(t) == IF KeyKnown(t) THEN <<Registration(t, "toggle")>> ELSE <<>>
ResetHandles(r) == IF r # NoKey /\ KeyKnown(r) THEN <<Registration(r, "reset")>> ELSE <<>>
FailedRegistrations(t, r) ==
  (IF KeyKnown(t) THEN {} ELSE {"toggle"}) \cup
  (IF r # NoKey /\ ~KeyKnown(r) THEN {"reset"} ELSE {})

\* HotkeyManager.apply with the keyboard library importable: clear(), the debug
\* hook set as asked, then the toggle and the reset registration, each in a try
\* of its own.
Apply(t, r, d) ==
  /\ handles' = ToggleHandles(t) \o ResetHandles(r)
  /\ kbHooks' = HooksAfterClear \cup Range(ToggleHandles(t) \o ResetHandles(r))
  /\ debugHook' = d
  /\ hkLog' = FailedRegistrations(t, r)
  /\ lastApply' = [called |-> TRUE, prior |-> Registered, want |-> Want(t, r)]
  /\ UNCHANGED <<server, proto, calls>>

\* HotkeyManager.apply when "import keyboard" fails: clear() returns at once
\* and apply() logs the failure and returns.
ApplyNoLibrary(t, r) ==
  /\ kbHooks = {}
  /\ hkLog' = {"load"}
  /\ lastApply' = [called |-> TRUE, prior |-> Registered, want |-> Want(t, r)]
  /\ UNCHANGED <<server, proto, calls, handles, kbHooks, debugHook>>

\* HotkeyManager.set_debug_enabled: the hook is installed or removed; a
\* keyboard.hook that raises leaves it off.
SetDebugEnabled(d, ok) ==
  /\ debugHook' = IF d THEN (debugHook \/ ok) ELSE FALSE
  /\ UNCHANGED <<server, proto, calls, handles, kbHooks, hkLog, lastApply>>

\* HotkeyManager.clear() called by the GUI's on_stop.
Clear ==
  /\ handles' = <<>>
  /\ kbHooks' = HooksAfterClear
  /\ debugHook' = FALSE
  /\ lastApply' = NoApply
  /\ UNCHANGED <<server, proto, calls, hkLog>>

NextHotkey ==
  \/ \E t \in Keys, r \in Keys, d \in BOOLEAN : Apply(t, r, d)
  \/ \E t \in Keys, r \in Keys : ApplyNoLibrary(t, r)
  \/ \E d \in BOOLEAN, ok \in BOOLEAN : SetDebugEnabled(d, ok)
  \/ Clear

SpecHotkey == Init /\ [][NextHotkey]_vars

\* ------------------------------------------------------------ wire protocol

MaxFrames == 2     \* text frames one sink sends

\* json.dumps of a dict of strings, given as its <<key, value>> pairs in order
\* (default separators, ensure_ascii=False).
RECURSIVE JsonItems(_)
JsonItems(pairs) ==
  LET Quoted(x) == "\"" \o x \o "\""
      Item(kv) == Quoted(kv[1]) \o ": " \o Quoted(kv[2])
  IN  IF pairs = <<>> THEN ""
      ELSE IF Len(pairs) = 1 THEN Item(pairs[1])
      ELSE Item(pairs[1]) \o ", " \o JsonItems(Tail(pairs))
JsonDumps(pairs) == "{" \o JsonItems(pairs) \o "}"

\* jmsg(t): json.dumps({"type": t}).
jmsg(t) == JsonDumps(<<<<"type", t>>>>)

\* Variant of HelloFields for sensitivity: the type alone.
HelloTypeOnly == <<<<"type", "hello">>>>
\* ws_handler: the dict of the hello message.
HelloFields == <<<<"type", "hello">>, <<"msg", "connected">>>>

\* The text frames a sink may send: the literal ping, texts close to it, the
\* empty text, plain text and structured text.
Frames == {"ping", "pong", "Ping", "ping ", "", "foo", jmsg("toggle")}

\* Variant of Reply for sensitivity: every frame is echoed.
ReplyEchoAll(msg) == "echo:" \o msg
\* ws_handler: the reply to the text frame msg.
Reply(msg) == IF msg = "ping" THEN "pong" ELSE "echo:" \o msg

\* What the handler of one connection leaves alone: everything of the server
\* but the registries and the transports.
beside ==
  <<ctrl, tpc, xpc, wsrv, listener, lock, ready, cur, batch, stopping,
    hpc, hgen, hhub, nrem, bcasts, input, downs, hist, hotkeys, calls>>

\* The handshake of sink 1 completes: websockets calls the handler.
WsAccept ==
  /\ wpc = "none"
  /\ wpc' = "start"
  /\ sock' = [sock EXCEPT ![1] = "open"]
  /\ UNCHANGED <<beside, clients, wsent, wrecv>>

\* ws_handler: "await hub.add(ws)".
WsRegister ==
  /\ wpc = "start"
  /\ clients' = ClientsAfterAdd(1, 1)
  /\ wpc' = "hello"
  /\ UNCHANGED <<beside, sock, wsent, wrecv>>

\* ws_handler: the hello send; on a closed transport it raises and the
\* handler goes to its finally block.
WsHello ==
  /\ wpc = "hello"
  /\ IF sock[1] = "open"
       THEN wsent' = Append(wsent, JsonDumps(HelloFields)) /\ wpc' = "recv"
       ELSE wsent' = wsent /\ wpc' = "cleanup"
  /\ UNCHANGED <<beside, clients, sock, wrecv>>

\* ws_handler: "async for msg in ws" yields the text frame m.
WsReceive(m) ==
  /\ wpc = "recv"
  /\ sock[1] = "open"
  /\ Len(wrecv) < MaxFrames
  /\ wrecv' = Append(wrecv, m)
  /\ wpc' = "reply"
  /\ UNCHANGED <<beside, clients, sock, wsent>>

\* ws_handler: the reply to the frame received last; on a closed transport the
\* send raises and the handler goes to its finally block.
WsReply ==
  /\ wpc = "reply"
  /\ IF sock[1] = "open"
       THEN wsent' = Append(wsent, Reply(wrecv[Len(wrecv)])) /\ wpc' = "recv"
       ELSE wsent' = wsent /\ wpc' = "cleanup"
  /\ UNCHANGED <<beside, clients, sock, wrecv>>

\* The sink closes the connection (or the network drops it).
WsPeerClose ==
  /\ wpc \notin {"none", "end"}
  /\ sock[1] = "open"
  /\ sock' = SockAfterClose({1})
  /\ UNCHANGED <<beside, clients, proto>>

\* ws_handler: "async for" ends on the closed transport.
WsStreamEnd ==
  /\ wpc = "recv"
  /\ sock[1] = "closed"
  /\ wpc' = "cleanup"
  /\ UNCHANGED <<beside, clients, sock, wsent, wrecv>>

\* ws_handler: "finally: await hub.remove(ws)".
WsUnregister ==
  /\ wpc = "cleanup"
  /\ clients' = ClientsAfterRemove(1, 1)
  /\ wpc' = "end"
  /\ UNCHANGED <<beside, sock, wsent, wrecv>>

NextHandler ==
  \/ WsAccept
  \/ WsRegister
  \/ WsHello
  \/ \E m \in Frames : WsReceive(m)
  \/ WsReply
  \/ WsPeerClose
  \/ WsStreamEnd
  \/ WsUnregister

SpecHandler == Init /\ [][NextHandler]_vars

\* ------------------------------------------------------------ Hub.remove

\* Variant of DiscardRaises for sensitivity: set.remove, which raises KeyError
\* on an element that is absent.
RemoveRaises(S, s) == s \notin S
\* set.discard(s) on the set S: whether the call raises.
DiscardRaises(S, s) == FALSE

\* Hub.remove(s) on the hub h, whatever the registry holds.
Remove(h, s) ==
  /\ rcall.n = 0
  /\ clients' = ClientsAfterRemove(h, s)
  /\ rraised' = DiscardRaises(clients[h], s)
  /\ rcall' = [n |-> 1, hub |-> h, sink |-> s, before |-> clients[h]]
  /\ UNCHANGED <<ctrl, tpc, xpc, wsrv, listener, lock, ready, cur, batch,
                 stopping, conns, bcasts, input, downs, hist, hotkeys, proto>>

\* Hub.remove of the same sink on the same hub once more.
RemoveAgain ==
  /\ rcall.n = 1
  /\ ~rraised
  /\ clients' = ClientsAfterRemove(rcall.hub, rcall.sink)
  /\ rraised' = DiscardRaises(clients[rcall.hub], rcall.sink)
  /\ rcall' = [rcall EXCEPT !.n = 2]
  /\ UNCHANGED <<ctrl, tpc, xpc, wsrv, listener, lock, ready, cur, batch,
                 stopping, conns, bcasts, input, downs, hist, hotkeys, proto>>

NextRemove ==
  \/ \E h \in Gens, s \in Sinks : Remove(h, s)
  \/ RemoveAgain

\* Every registry over the sinks is an input.
SpecRemove ==
  /\ \E reg \in [Gens -> SUBSET Sinks] : InitWith(0, 0, reg)
  /\ [][NextRemove]_vars

\* ------------------------------------------------------------ a slow sink

\* The runs in which the server is started and never stopped, sinks connect
\* and leave, and the input thread submits broadcasts.
NextFanout ==
  \/ Start
  \/ \E g \in Gens : ThreadNewLoop(g)
  \/ \E g \in Gens : ThreadNewHub(g)
  \/ \E g \in Gens : StartServerBegin(g)
  \/ \E g \in Gens : Resolved(g)
  \/ \E g \in Gens : BindOk(g)
  \/ \E g \in Gens : StartServerReturn(g)
  \/ \E g \in Gens : RunUntilCompleteCb(g)
  \/ \E g \in Gens : LoopExit(g)
  \/ \E s \in Sinks, g \in Gens : Connect(s, g)
  \/ \E s \in Sinks : HandlerCount(s)
  \/ \E s \in Sinks : HandlerRegister(s)
  \/ \E s \in Sinks : HelloSent(s)
  \/ \E s \in Sinks : PeerClose(s)
  \/ \E s \in Sinks : HandlerUnregister(s)
  \/ \E s \in Sinks : HandlerEnd(s)
  \/ SubmitReadLoop
  \/ SubmitReadHub
  \/ SubmitNoop
  \/ SubmitSchedule
  \/ \E i \in Bcasts : SpawnBcast(i)
  \/ \E i \in Bcasts : BcastSnapshot(i)
  \/ \E i \in Bcasts : BcastGather(i)
  \/ \E i \in Bcasts, s \in Sinks : SendStart(i, s)
  \/ \E i \in Bcasts, s \in Sinks : SendDone(i, s)
  \/ \E i \in Bcasts : BcastReturn(i)

\* The server thread and its event loop keep running what is ready. Nothing
\* makes a sink read what it is sent: the sends to sink 1 may never complete.
SpecFanout ==
  /\ InitWith(MaxBcastMore, 0, NoClients)
  /\ [][NextFanout]_vars
  /\ \A g \in Gens :
       /\ WF_vars(ThreadNewLoop(g)) /\ WF_vars(ThreadNewHub(g))
       /\ WF_vars(StartServerBegin(g)) /\ WF_vars(Resolved(g))
       /\ WF_vars(BindOk(g)) /\ WF_vars(StartServerReturn(g))
       /\ WF_vars(RunUntilCompleteCb(g)) /\ WF_vars(LoopExit(g))
  /\ \A s \in Sinks :
       /\ WF_vars(HandlerCount(s)) /\ WF_vars(HandlerRegister(s))
       /\ WF_vars(HelloSent(s)) /\ WF_vars(HandlerUnregister(s))
       /\ WF_vars(HandlerEnd(s))
  /\ \A i \in Bcasts :
       /\ WF_vars(SpawnBcast(i)) /\ WF_vars(BcastSnapshot(i))
       /\ WF_vars(BcastGather(i)) /\ WF_vars(BcastReturn(i))
       /\ \A s \in Sinks : WF_vars(SendStart(i, s))
       /\ \A s \in Sinks \ {1} : WF_vars(SendDone(i, s))

\* ------------------------------------------------------------ properties

\* Entry t waits in the ready queue of loop g.
Scheduled(g, t) == \E n \in 1..Len(ready[g]) : ready[g][n] = t

\* The registry: the members of every hub.
Reg == UNION {clients[g] : g \in Gens}

\* Connections between their count update and their registry update.
InFlight == {s \in Sinks : hpc[s] \in {"counted", "removed"}}

\* Nothing is in progress: every server thread is absent, serving or gone,
\* and no loop has work left.
Settled ==
  /\ \A g \in Gens : tpc[g] \in {"idle", "serving", "done"}
  /\ \A g \in Gens : ready[g] = <<>> /\ cur[g] = NoTask

\* shutdown() number k calls loop.stop() in this step.
StopsLoop(k) == dpc[k] \in {"locked", "loop", "abort", "stop"} /\ dpc'[k] = "done"

\* C1: Hub.broadcast attempts a send on every sink of its snapshot, whatever
\* happens to the other sends: while the gather is pending each sink of the
\* snapshot has had its send attempted or has it scheduled on a loop that is
\* still open, and when the gather is over every sink has been attempted.
C1_EverySnapshotSinkAttempted ==
  \A i \in Bcasts : bpc[i] \in {"gather", "done"} =>
    /\ \A s \in bsnap[i] : spc[i][s] \in {"ready", "io", "ok", "fail"}
    /\ \A s \in bsnap[i] : spc[i][s] = "ready" =>
         Scheduled(bloop[i], STask(i, s)) /\ ~LoopClosed(bloop[i])
    /\ bpc[i] = "done" => Attempted(i) = bsnap[i]

\* C2: stop() followed at once by start() ends with the server running behind
\* an open listener, and no sink connected before the stop() is delivered a
\* broadcast submitted after the restart.
C2_StopThenStartRestarts ==
  /\ (stopSeq = "restarted" /\ Settled) =>
       (running /\ \E g \in Gens : tpc[g] = "serving" /\ listener[g] = "open")
  /\ \A i \in Bcasts : bphase[i] = "restarted" => Delivered(i) \cap preStop = {}

\* C3: a broadcast submitted after stop() has returned (and before any further
\* start()) attempts no send on any sink.
C3_NoSendAfterStopReturned ==
  \A i \in Bcasts : bphase[i] = "stopped" => Attempted(i) = {}

\* C4: shutdown() is ordered: when it calls loop.stop() every sink of its
\* snapshot has had its close attempted and no listening endpoint is open,
\* and a listening endpoint is closed on a live loop only when every shutdown
\* under way is through with the closes of its snapshot.
C4_OrderedShutdown ==
  [][/\ \A k \in Stops : StopsLoop(k) =>
          (dsnap[k] \subseteq dclosed[k] /\ \A g \in Gens : listener'[g] # "open")
     /\ \A g \in Gens : (listener[g] = "open" /\ listener'[g] = "closed" /\ ~LoopClosed(g)) =>
          \A k \in Stops : dpc[k] \in {"locked", "loop", "abort"} => dsnap[k] \subseteq dclosed[k]
    ]_vars

\* C5: Hub.remove runs exactly once for every registered connection: never
\* twice, once for every handler that has returned, and a registered sink whose
\* transport is closed has been unregistered or has its handler's finally block
\* running or scheduled on a loop that is still open; a sink is a member of
\* its hub from its registration to its removal.
C5_UnregisterExactlyOnce ==
  \A s \in Sinks :
    /\ nrem[s] <= 1
    /\ hpc[s] \in {"removed", "done"} <=> nrem[s] = 1
    /\ (hhub[s] # 0 /\ sock[s] = "closed") => hpc[s] \in {"cleanup", "removed", "done"}
    /\ hpc[s] = "cleanup" =>
         /\ cur[hgen[s]] = HTask(s) \/ Scheduled(hgen[s], HTask(s))
         /\ ~LoopClosed(hgen[s])
    /\ hpc[s] \notin {"none", "done"} => ~LoopClosed(hgen[s])
    /\ (hhub[s] # 0 /\ nrem[s] = 0) => s \in clients[hhub[s]]
    /\ nrem[s] = 1 => s \notin Reg

\* A connection registered, left the Open state and was unregistered once.
C5_Unregistered == \E s \in Sinks : hpc[s] = "done" /\ hhub[s] # 0 /\ nrem[s] = 1

\* C6: the hub lock is held only within the step that copies the membership:
\* its holder is the task executing on some loop, and no broadcast with a send
\* in flight and no shutdown with a close in flight holds the lock of its hub.
C6_LockHeldOnlyForSnapshot ==
  /\ \A g \in Gens : lock[g] # NoTask => \E h \in Gens : cur[h] = lock[g]
  /\ \A i \in Bcasts : (\E s \in Sinks : spc[i][s] = "io") => lock[bhub[i]] # BTask(i)
  /\ \A k \in Stops : dpc[k] = "closing" => lock[dhub[k]] # DTask(k)

\* A send is in flight and a close is in flight while no lock is held.
C6_IoWithoutLock ==
  /\ \E i \in Bcasts, s \in Sinks : spc[i][s] = "io"
  /\ \E k \in Stops : dpc[k] = "closing"
  /\ \A g \in Gens : lock[g] = NoTask

\* C7: a send that fails during a broadcast leaves every registry as it was,
\* ends no broadcast with an exception and raises nothing into the submitting
\* thread; a sink leaves a registry only in its own handler's finally block.
C7_FailedSendLeavesRegistry ==
  [][/\ \A i \in Bcasts : (bpc[i] = "gather" /\ Failed(i)' # Failed(i)) => clients' = clients
     /\ \A i \in Bcasts : bpc'[i] \notin {"raised", "crashed"}
     /\ ~iraised'
     /\ \A g \in Gens : (clients'[g] # clients[g] /\ clients'[g] \subseteq clients[g]) =>
          \E s \in Sinks : /\ hpc[s] = "cleanup" /\ hpc'[s] = "removed"
                           /\ clients'[g] = clients[g] \ {s}
    ]_vars

\* A send of a broadcast failed and the sink is still a member of the hub.
C7_FailedSinkStillMember ==
  \E i \in Bcasts, s \in Sinks : spc[i][s] = "fail" /\ s \in clients[bhub[i]]

\* C8: WsServerController.broadcast called while no loop of the controller
\* runs never raises into the input thread, changes neither a registry nor the
\* client count, schedules nothing when the running flag is clear, and no
\* broadcast scheduled in that situation ever attempts a send.
C8_SubmitWhileDownIsNoop ==
  [][/\ ipc' # ipc => (clients' = clients /\ clientCount' = clientCount)
     /\ ~iraised'
     /\ (ipc = "gotHub" /\ ipc' = "idle" /\ ~running) => (bpc' = bpc /\ ready' = ready)
     /\ \A i \in Bcasts : bdown'[i] => Attempted(i)' = {}
    ]_vars

\* A broadcast submitted while no loop was running has run and taken its
\* snapshot.
C8_SubmittedWhileDown == \E i \in Bcasts : bdown[i] /\ bpc[i] = "locked"

\* C9: when the bind fails, the server thread of that start ends with the
\* running flag clear, no loop running and no registered sink, and the failure
\* has been reported through the log callback.
C9_BindFailureLeavesCleanState ==
  [][\A g \in Gens : (xpc[g] = "fail" /\ tpc[g] = "closed" /\ tpc'[g] = "done") =>
        /\ ~running'
        /\ \A h \in Gens : ~LoopRuns(h)
        /\ Reg = {}
        /\ g \in errLog
    ]_vars

\* C10: the client count is the registry size plus the connections in flight
\* between their count update and their registry update; with none in flight
\* the two are equal.
C10_CountMatchesRegistry == clientCount = Cardinality(Reg) + Cardinality(InFlight)

\* After a server generation has ended, a later one has a registered sink and
\* a sink that has disconnected, with no connection in flight.
C10_CountedAfterCycle ==
  /\ InFlight = {}
  /\ clientCount = 1
  /\ \E s \in Sinks : hpc[s] = "done"
  /\ \E g \in Gens : tpc[g] = "done"

\* C11: a sink that disconnects while a broadcast is in flight takes nothing
\* from the other sinks of the snapshot: a pending send stays scheduled while
\* the loop is open, a completed fan-out has delivered to every sink of the
\* snapshot whose transport is open, and once the disconnect has completed the
\* sink is out of the registry and the client count counts the others only.
C11_DisconnectDuringBroadcast ==
  /\ \A i \in Bcasts : bpc[i] = "done" =>
        \A s \in bsnap[i] : sock[s] = "open" => spc[i][s] = "ok"
  /\ \A i \in Bcasts : \A s \in bsnap[i] :
        (bpc[i] = "gather" /\ spc[i][s] = "ready" /\ ~LoopClosed(bloop[i])) =>
           Scheduled(bloop[i], STask(i, s))
  /\ \A a \in Sinks : hpc[a] = "done" =>
        /\ a \notin Reg
        /\ InFlight = {} => clientCount = Cardinality(Reg \ {a})

\* A broadcast to {a, b} has completed: a disconnected meanwhile and its
\* handler has returned, b got the message and is the one client counted.
C11_SiblingDelivered ==
  \E i \in Bcasts, a, b \in Sinks :
    /\ a # b /\ bsnap[i] = {a, b} /\ bpc[i] = "done"
    /\ hpc[a] = "done" /\ spc[i][a] = "fail"
    /\ spc[i][b] = "ok" /\ Reg = {b} /\ clientCount = 1

\* The number of entries t in the queue q.
Count(q, t) == Cardinality({n \in 1..Len(q) : q[n] = t})

\* C12: one submitted broadcast reaches every connected sink exactly once:
\* its snapshot is the whole registry of its hub, it has one send task for
\* each sink of the snapshot and none for any other sink, a send task is
\* queued once while its send is pending and not at all afterwards, and when
\* the fan-out is over every sink of the snapshot whose transport is open has
\* been delivered the message.
C12_EachSinkExactlyOnce ==
  \A i \in Bcasts :
    /\ bpc[i] = "locked" => bsnap[i] = clients[bhub[i]]
    /\ bpc[i] \in {"gather", "done"} =>
          \A s \in Sinks : spc[i][s] # "none" <=> s \in bsnap[i]
    /\ \A s \in Sinks, g \in Gens :
          Count(ready[g], STask(i, s)) =
            IF g = bloop[i] /\ spc[i][s] = "ready" THEN 1 ELSE 0
    /\ bpc[i] = "done" =>
          \A s \in bsnap[i] : /\ spc[i][s] \in {"ok", "fail"}
                                /\ sock[s] = "open" => spc[i][s] = "ok"

\* With the server running and never stopped, two sinks connected and received
\* the hello; one broadcast was submitted and has been delivered to both.
C12_BothDelivered ==
  \E i \in Bcasts :
    /\ stopSeq = "none" /\ running
    /\ Cardinality(Connected) = 2 /\ \A s \in Connected : hpc[s] = "open"
    /\ bpc[i] = "done" /\ bsnap[i] = Connected /\ Delivered(i) = Connected

\* C13: when apply() returns the trigger mapping in force is the mapping that
\* was asked for or the mapping that was in force before the call.
C13_RebindAllOrNothing ==
  [][(lastApply' # lastApply /\ lastApply'.called) =>
        Registered' \in {lastApply'.want, lastApply'.prior}
    ]_vars

\* shutdown() number j has been scheduled by a stop() and has not finished.
ShutdownUnderWay(j) == dpc[j] \notin {"none", "unused", "done"}

\* C14: a stop() called after a first stop() starts no second shutdown
\* sequence: no stop() schedules shutdown() on a loop on which a shutdown()
\* scheduled earlier is still under way.
C14_StopIdempotent ==
  [][\A k \in Stops : (dpc[k] = "none" /\ dpc'[k] = "queued") =>
        \A j \in Stops \ {k} : ~(ShutdownUnderWay(j) /\ dloop[j] = loopRef)
    ]_vars

\* stop() has scheduled shutdown() on the loop of a running server: the flag
\* is set, the controller refers to the loop, hub and server of a thread that
\* is serving behind an open listener, and there is no other server thread
\* and no other listener.
StopOnServing ==
  \E k \in Stops :
    /\ dpc[k] = "queued" /\ tpc[dloop[k]] = "serving"
    /\ running /\ loopRef = dloop[k] /\ hubRef = dloop[k] /\ serverRef = dloop[k]
    /\ listener[dloop[k]] = "open"
    /\ \A h \in Gens \ {dloop[k]} : tpc[h] \in {"idle", "done"} /\ listener[h] # "open"

\* Not running: flag clear, every server thread gone, no listener open.
Down ==
  /\ ~running
  /\ \A g \in Gens : tpc[g] \in {"idle", "done"}
  /\ \A g \in Gens : listener[g] # "open"

C16_StartIdempotent ==
  [][/\ running => \A g \in Gens : tpc[g] = "idle" => tpc'[g] = "idle"
     /\ (running /\ stopSeq # "restarted" /\ stopSeq' = "restarted") =>
          UNCHANGED <<ctrl, loops, conns>>
    ]_vars

\* start() was called while the flag was set, with a server serving a
\* registered sink: one server thread exists and the sink is still counted.
C16_StartedWhileRunning ==
  /\ stopSeq = "restarted" /\ running
  /\ tpc = [g \in Gens |-> IF g = 1 THEN "serving" ELSE "idle"]
  /\ loopRef = 1 /\ hubRef = 1 /\ listener[1] = "open"
  /\ clients[1] = {1} /\ clientCount = 1

\* C17: every text frame received gets exactly one reply, pong for the
\* literal ping and echo: followed by the text for any other frame, and no
\* frame ends the connection: the handler leaves its receive loop only when
\* the transport is closed.
C17_OneReplyPerFrame ==
  /\ Len(wsent) <= 1 + Len(wrecv)
  /\ wpc = "recv" => Len(wsent) = 1 + Len(wrecv)
  /\ wpc = "reply" => Len(wsent) = Len(wrecv)
  /\ \A n \in 1..Len(wrecv) : Len(wsent) > n =>
       wsent[n + 1] = IF wrecv[n] = "ping" THEN "pong" ELSE "echo:" \o wrecv[n]
  /\ wpc \in {"cleanup", "end"} => sock[1] = "closed"

\* The sink sent ping and then a structured text; it got pong and the echo
\* and the connection is open.
C17_PongThenEcho ==
  /\ wpc = "recv" /\ sock[1] = "open"
  /\ wrecv = <<"ping", "{\"type\": \"toggle\"}">>
  /\ Len(wsent) = 3 /\ wsent[2] = "pong" /\ wsent[3] = "echo:{\"type\": \"toggle\"}"

C20_RemoveIdempotent ==
  [][ rcall' # rcall =>
        /\ ~rraised'
        /\ clients' = [clients EXCEPT ![rcall'.hub] = @ \ {rcall'.sink}]
        /\ clients'[rcall'.hub] = rcall'.before \ {rcall'.sink}
        /\ rcall'.sink \notin clients[rcall'.hub] => clients' = clients
        /\ rcall'.n = 2 => clients' = clients ]_vars

\* A registered sink was removed twice from a registry that held another
\* sink too, which is still registered.
C20_RemovedTwice ==
  /\ rcall.n = 2 /\ ~rraised
  /\ rcall.sink \in rcall.before
  /\ clients[rcall.hub] # {}
  /\ rcall.sink \notin clients[rcall.hub]

\* C19: whether or not the sends to sink 1 ever complete, every other sink of
\* a fan-out's snapshot has its send performed, and delivered unless that
\* sink's connection closes; and every broadcast submitted, a later one
\* included, is delivered to every other sink that is registered when it is
\* scheduled, unless that sink's connection closes.
C19_SlowSinkDelaysOnlyItself ==
  /\ \A i \in Bcasts : \A s \in Sinks \ {1} :
       (spc[i][s] = "ready") ~> (spc[i][s] = "ok" \/ sock[s] = "closed")
  /\ \A i \in Bcasts : \A s \in Sinks \ {1} :
       (bpc[i] = "queued" /\ s \in clients[bhub[i]])
         ~> (spc[i][s] = "ok" \/ sock[s] = "closed")

\* The send of the first broadcast to sink 1 has not completed, that broadcast
\* is still gathering, and both it and a later broadcast were delivered to
\* sink 2.
C19_OtherSinkServedTwice ==
  /\ bpc[1] = "gather" /\ spc[1][1] = "io" /\ spc[1][2] = "ok"
  /\ bpc[2] = "gather" /\ spc[2][2] = "ok"

\* C21: the running flag agrees with the runtime. Whenever the flag is clear
\* and nothing is in progress, no server thread of the controller is alive and
\* no listener of it is open; and at no time do two server threads have an
\* event loop that is not closed.
C21_FlagAgreesWithRuntime ==
  /\ (~running /\ Settled) =>
       \A g \in Gens : tpc[g] \in {"idle", "done"} /\ listener[g] # "open"
  /\ Cardinality({g \in Gens : tpc[g] \notin {"idle", "spawned", "closed", "done"}}) <= 1

\* C22: every broadcast that WsServerController.broadcast has scheduled runs
\* the hub of the server generation whose event loop it is scheduled on.
C22_HubAndLoopOfOneServer ==
  \A i \in Bcasts : bhub[i] = bloop[i]

====
